---- MODULE Spec2Model ----
(***************************************************************************)
(* State-machine model of the Red Hat documentation RAG backend            *)
(* (src/main.py): the ingestion path (DocumentProcessor, VectorStore.      *)
(* add_chunks, DocumentManager and the upload / reprocess routes) and the  *)
(* retrieval path (SearchRequest validation, VectorStore.search and its    *)
(* statistics).                                                            *)
(*                                                                         *)
(* All routes are `async def` handlers served by one event loop.  A handler *)
(* body that contains no suspending await runs to completion before any    *)
(* other handler runs, so each handler body is one action.  Upload and     *)
(* reprocess requests fix nothing before their handler runs, so they are   *)
(* one step each; search requests are received first (a separate step), so *)
(* several searches are in flight at once and are served in any order.     *)
(*                                                                         *)
(* Fixed point: confidences, distances and min_confidence are integers in  *)
(* units of 10^-(RoundDigits+1), i.e. 1.0 is Scale.                        *)
(***************************************************************************)
EXTENDS Integers, Sequences, FiniteSets, Bags, TLC

VARIABLES
    config,           \* Config.CHUNK_SIZE / Config.CHUNK_OVERLAP as read from the environment
    onDuplicate,      \* what the installed index does with an id it already stores
    phase,            \* "init" | "running" | "failed": the lifespan of the application
    files,            \* the documents directory: name -> extractable page texts
    processed_files,  \* DocumentManager.processed_files
    collection,       \* the ids stored in the index collection, as a bag
    submissions,      \* per name: how many times its passages were handed to collection.add
    outcome,          \* per name: what DocumentManager.process_document last logged for it
    uploads,          \* number of upload requests handled
    reprocesses,      \* number of reprocess requests handled
    inflight,         \* number of search requests received and not yet handled
    stats,            \* VectorStore._stats: total_queries and response_times
    samples,          \* the response time of every completed search, in completion order
    backendCalls,     \* calls made by search to model.encode and collection.query
    response,         \* the last response sent
    ret               \* the last direct call of a DocumentProcessor function, with its result

vars == <<config, onDuplicate, phase, files, processed_files, collection, submissions,
          outcome, uploads, reprocesses, inflight, stats, samples, backendCalls,
          response, ret>>

ingestVars == <<files, processed_files, collection, submissions, outcome, uploads,
                reprocesses>>
searchVars == <<stats, samples, backendCalls>>

-----------------------------------------------------------------------------
(* Bounds of the model *)

MaxUploads == 2
MaxReprocess == 1
MaxSearches == 2        \* searches that reach the backends, retrieval specification
MaxStatsSearches == 102 \* the same, statistics specification
MaxFailures == 1        \* searches whose backend call fails
MaxTextWords == 5       \* words of a text passed to chunk_text
MaxChunkSize == 3       \* chunk_size passed to chunk_text
MaxCategorizeWords == 4 \* words of a text passed to categorize_content
MaxPageWords == 4       \* words of the page of a one-page document passed to process_document

-----------------------------------------------------------------------------
(* The documents *)

Names == {"a.pdf", "b.pdf"}
UploadNames == Names \cup {"notes.txt"}
Clients == {"c1", "c2"}

\* A document's bytes, as what the extractor gets out of them: one word
\* sequence per page of the PDF (an empty one for a page without text).
\* <<>> is a file the extractor gets nothing from (corrupt, truncated, blank).
Blobs ==
    { <<>>,
      << <<"w1", "w2">> >>,
      << <<"w1", "w2", "w3", "w4">>, <<>>, <<"w5">> >> }

\* CHUNK_SIZE and CHUNK_OVERLAP are whatever the environment holds.
ConfigChoices ==
    { [CHUNK_SIZE |-> 3, CHUNK_OVERLAP |-> 1],
      [CHUNK_SIZE |-> 2, CHUNK_OVERLAP |-> 2],
      [CHUNK_SIZE |-> 1, CHUNK_OVERLAP |-> 2] }

IsPdf(filename) == filename \in Names

\* Outcomes of the two backend calls of add_chunks.
BackendOutcomes == {"ok", "embed_fail", "add_fail"}

Min(a, b) == IF a <= b THEN a ELSE b
Max(a, b) == IF a >= b THEN a ELSE b

-----------------------------------------------------------------------------
(* DocumentProcessor *)

\* extract_text_from_pdf: the pages with text, numbered from 1 by their
\* place in the PDF; any error gives [].
RECURSIVE ExtractFrom(_, _)
ExtractFrom(blob, i) ==
    IF i > Len(blob) THEN <<>>
    ELSE IF blob[i] # <<>>
         THEN <<[page |-> i, text |-> blob[i]]>> \o ExtractFrom(blob, i + 1)
         ELSE ExtractFrom(blob, i + 1)

extract_text_from_pdf(blob) == ExtractFrom(blob, 1)

\* words[a:b] of Python for a >= 0 (a negative b counts from the end).
PySlice(words, a, b) ==
    LET n == Len(words)
        e == IF b < 0 THEN Max(b + n, 0) ELSE Min(b, n)
    IN  IF e > a THEN SubSeq(words, a + 1, e) ELSE <<>>

\* `x or d`: d when x is None or 0.
None == -1
OrDefault(x, d) == IF x = None \/ x = 0 THEN d ELSE x

\* The loop of chunk_text over range(i, len(words), step), step > 0.
RECURSIVE ChunkLoop(_, _, _, _)
ChunkLoop(words, i, step, size) ==
    IF i >= Len(words) THEN <<>>
    ELSE LET chunk == PySlice(words, i, i + size)
         IN  (IF chunk # <<>> THEN <<chunk>> ELSE <<>>)
             \o ChunkLoop(words, i + step, step, size)

\* chunk_text: [raised, chunks].  range() raises ValueError on a zero step
\* and is empty on a negative one.
chunk_text(words, chunk_size, overlap, cfg) ==
    LET size == OrDefault(chunk_size, cfg.CHUNK_SIZE)
        ovl  == OrDefault(overlap, cfg.CHUNK_OVERLAP)
        step == size - ovl
    IN  IF step = 0 THEN [raised |-> TRUE, chunks |-> <<>>]
        ELSE IF step < 0 THEN [raised |-> FALSE, chunks |-> <<>>]
        ELSE [raised |-> FALSE, chunks |-> ChunkLoop(words, 0, step, size)]

\* The id of a chunk: md5 of "<name>_<page>_<index>".  Names end in ".pdf",
\* so the string determines the triple, and md5 is taken as injective on it.
ChunkId(name, page, i) == <<name, page, i>>

PageChunks(name, page_data, texts) ==
    [i \in 1..Len(texts) |->
        [id |-> ChunkId(name, page_data.page, i - 1),
         content |-> texts[i],
         source |-> name,
         page |-> page_data.page,
         chunk_index |-> i - 1]]

\* The page loop of DocumentProcessor.process_document.
RECURSIVE ProcessPages(_, _, _, _)
ProcessPages(name, pages, k, cfg) ==
    IF k > Len(pages) THEN [raised |-> FALSE, chunks |-> <<>>]
    ELSE LET c == chunk_text(pages[k].text, None, None, cfg)
         IN  IF c.raised THEN [raised |-> TRUE, chunks |-> <<>>]
             ELSE LET rest == ProcessPages(name, pages, k + 1, cfg)
                  IN  IF rest.raised THEN rest
                      ELSE [raised |-> FALSE,
                            chunks |-> PageChunks(name, pages[k], c.chunks) \o rest.chunks]

\* DocumentProcessor.process_document: [raised, chunks].
ProcessorProcessDocument(name, blob, cfg) ==
    LET pages == extract_text_from_pdf(blob)
    IN  IF pages = <<>> THEN [raised |-> FALSE, chunks |-> <<>>]
        ELSE ProcessPages(name, pages, 1, cfg)

-----------------------------------------------------------------------------
(* Text: a string is the sequence of its characters *)

\* The characters of the strings the model uses (words of texts, keywords
\* and patterns).
Chars(w) ==
    CASE w = "w1" -> <<"w", "1">>
      [] w = "w2" -> <<"w", "2">>
      [] w = "w3" -> <<"w", "3">>
      [] w = "w4" -> <<"w", "4">>
      [] w = "w5" -> <<"w", "5">>
      [] w = "w6" -> <<"w", "6">>
      [] w = "w7" -> <<"w", "7">>
      [] w = "configure" -> <<"c", "o", "n", "f", "i", "g", "u", "r", "e">>
      [] w = "selinux" -> <<"s", "e", "l", "i", "n", "u", "x">>
      [] w = "and" -> <<"a", "n", "d">>
      [] w = "firewalld" -> <<"f", "i", "r", "e", "w", "a", "l", "l", "d">>
      [] w = "Install" -> <<"I", "n", "s", "t", "a", "l", "l">>
      [] w = "RHEL" -> <<"R", "H", "E", "L">>
      [] w = "9.2" -> <<"9", ".", "2">>
      [] w = "10" -> <<"1", "0">>
      [] w = "unknown" -> <<"u", "n", "k", "n", "o", "w", "n">>
      [] w = "rhel" -> <<"r", "h", "e", "l">>
      [] w = "red hat enterprise linux" -> <<"r", "e", "d", " ", "h", "a", "t", " ", "e", "n", "t", "e", "r", "p", "r", "i", "s", "e", " ", "l", "i", "n", "u", "x">>
      [] w = "install" -> <<"i", "n", "s", "t", "a", "l", "l">>
      [] w = "setup" -> <<"s", "e", "t", "u", "p">>
      [] w = "deployment" -> <<"d", "e", "p", "l", "o", "y", "m", "e", "n", "t">>
      [] w = "bootstrap" -> <<"b", "o", "o", "t", "s", "t", "r", "a", "p">>
      [] w = "network" -> <<"n", "e", "t", "w", "o", "r", "k">>
      [] w = "ip" -> <<"i", "p">>
      [] w = "dns" -> <<"d", "n", "s">>
      [] w = "dhcp" -> <<"d", "h", "c", "p">>
      [] w = "firewall" -> <<"f", "i", "r", "e", "w", "a", "l", "l">>
      [] w = "iptables" -> <<"i", "p", "t", "a", "b", "l", "e", "s">>
      [] w = "security" -> <<"s", "e", "c", "u", "r", "i", "t", "y">>
      [] w = "authentication" -> <<"a", "u", "t", "h", "e", "n", "t", "i", "c", "a", "t", "i", "o", "n">>
      [] w = "ssl" -> <<"s", "s", "l">>
      [] w = "tls" -> <<"t", "l", "s">>
      [] w = "encryption" -> <<"e", "n", "c", "r", "y", "p", "t", "i", "o", "n">>
      [] w = "storage" -> <<"s", "t", "o", "r", "a", "g", "e">>
      [] w = "filesystem" -> <<"f", "i", "l", "e", "s", "y", "s", "t", "e", "m">>
      [] w = "disk" -> <<"d", "i", "s", "k">>
      [] w = "lvm" -> <<"l", "v", "m">>
      [] w = "raid" -> <<"r", "a", "i", "d">>
      [] w = "mount" -> <<"m", "o", "u", "n", "t">>
      [] w = "kvm" -> <<"k", "v", "m">>
      [] w = "qemu" -> <<"q", "e", "m", "u">>
      [] w = "libvirt" -> <<"l", "i", "b", "v", "i", "r", "t">>
      [] w = "virtual" -> <<"v", "i", "r", "t", "u", "a", "l">>
      [] w = "hypervisor" -> <<"h", "y", "p", "e", "r", "v", "i", "s", "o", "r">>
      [] w = "container" -> <<"c", "o", "n", "t", "a", "i", "n", "e", "r">>
      [] w = "podman" -> <<"p", "o", "d", "m", "a", "n">>
      [] w = "docker" -> <<"d", "o", "c", "k", "e", "r">>
      [] w = "kubernetes" -> <<"k", "u", "b", "e", "r", "n", "e", "t", "e", "s">>
      [] w = "openshift" -> <<"o", "p", "e", "n", "s", "h", "i", "f", "t">>
      [] w = "troubleshoot" -> <<"t", "r", "o", "u", "b", "l", "e", "s", "h", "o", "o", "t">>
      [] w = "debug" -> <<"d", "e", "b", "u", "g">>
      [] w = "error" -> <<"e", "r", "r", "o", "r">>
      [] w = "problem" -> <<"p", "r", "o", "b", "l", "e", "m">>
      [] w = "issue" -> <<"i", "s", "s", "u", "e">>

UpperCase == <<"A", "B", "C", "D", "E", "F", "G", "H", "I", "J", "K", "L", "M",
               "N", "O", "P", "Q", "R", "S", "T", "U", "V", "W", "X", "Y", "Z">>
LowerCase == <<"a", "b", "c", "d", "e", "f", "g", "h", "i", "j", "k", "l", "m",
               "n", "o", "p", "q", "r", "s", "t", "u", "v", "w", "x", "y", "z">>
Digits == {"0", "1", "2", "3", "4", "5", "6", "7", "8", "9"}

\* str.lower(), character by character.
LowerChar(ch) ==
    IF \E i \in 1..Len(UpperCase) : UpperCase[i] = ch
    THEN LowerCase[CHOOSE i \in 1..Len(UpperCase) : UpperCase[i] = ch]
    ELSE ch

Lower(text) == [i \in 1..Len(text) |-> LowerChar(text[i])]

\* ' '.join(words)
RECURSIVE JoinWords(_)
JoinWords(words) ==
    IF words = <<>> THEN <<>>
    ELSE IF Len(words) = 1 THEN Chars(words[1])
    ELSE Chars(words[1]) \o <<" ">> \o JoinWords(Tail(words))

\* pattern occurs in text at position p
MatchesAt(pattern, text, p) ==
    /\ p + Len(pattern) - 1 <= Len(text)
    /\ SubSeq(text, p, p + Len(pattern) - 1) = pattern

\* `pattern in text`
Occurs(pattern, text) == \E p \in 1..Len(text) : MatchesAt(pattern, text, p)

-----------------------------------------------------------------------------
(* DocumentProcessor.categorize_content *)

\* Config.CATEGORY_KEYWORDS, in its declaration order (the order in which a
\* dict is iterated).
CATEGORY_KEYWORDS ==
    <<
       [category |-> "installation",
        keywords |-> <<"install", "setup", "deployment", "bootstrap">>],
       [category |-> "networking",
        keywords |-> <<"network", "ip", "dns", "dhcp", "firewall", "iptables">>],
       [category |-> "security",
        keywords |-> <<"security", "selinux", "authentication", "ssl", "tls", "encryption">>],
       [category |-> "storage",
        keywords |-> <<"storage", "filesystem", "disk", "lvm", "raid", "mount">>],
       [category |-> "virtualization",
        keywords |-> <<"kvm", "qemu", "libvirt", "virtual", "hypervisor">>],
       [category |-> "containers",
        keywords |-> <<"container", "podman", "docker", "kubernetes", "openshift">>],
       [category |-> "troubleshooting",
        keywords |-> <<"troubleshoot", "debug", "error", "problem", "issue">>]
    >>

\* sum(1 for keyword in keywords if keyword in text_lower)
Score(i, text_lower) ==
    Cardinality({k \in 1..Len(CATEGORY_KEYWORDS[i].keywords) :
                    Occurs(Chars(CATEGORY_KEYWORDS[i].keywords[k]), text_lower)})

\* max(scores, key=scores.get) over the categories of positive score, from
\* category i on: the first key with the greatest value wins.
RECURSIVE MaxKey(_, _, _)
MaxKey(i, best, text_lower) ==
    IF i > Len(CATEGORY_KEYWORDS) THEN best
    ELSE IF Score(i, text_lower) > 0
            /\ (best = 0 \/ Score(i, text_lower) > Score(best, text_lower))
         THEN MaxKey(i + 1, i, text_lower)
         ELSE MaxKey(i + 1, best, text_lower)

\* The same with the last of the greatest values winning.
RECURSIVE MaxKeyLast(_, _, _)
MaxKeyLast(i, best, text_lower) ==
    IF i > Len(CATEGORY_KEYWORDS) THEN best
    ELSE IF Score(i, text_lower) > 0
            /\ (best = 0 \/ Score(i, text_lower) >= Score(best, text_lower))
         THEN MaxKeyLast(i + 1, i, text_lower)
         ELSE MaxKeyLast(i + 1, best, text_lower)

\* Mutant of categorize_content: among equal scores the last category wins.
categorize_content_last(text) ==
    LET best == MaxKeyLast(1, 0, Lower(text))
    IN  IF best = 0 THEN "general" ELSE CATEGORY_KEYWORDS[best].category

categorize_content(text) ==
    LET best == MaxKey(1, 0, Lower(text))
    IN  IF best = 0 THEN "general" ELSE CATEGORY_KEYWORDS[best].category

-----------------------------------------------------------------------------
(* DocumentProcessor.detect_rhel_version *)

\* The first position from p on that holds no whitespace (\s*).
RECURSIVE SkipSpaces(_, _)
SkipSpaces(text, p) ==
    IF p <= Len(text) /\ text[p] = " " THEN SkipSpaces(text, p + 1) ELSE p

\* The digits from position p on (\d+, greedy).
RECURSIVE DigitRun(_, _)
DigitRun(text, p) ==
    IF p <= Len(text) /\ text[p] \in Digits
    THEN <<text[p]>> \o DigitRun(text, p + 1)
    ELSE <<>>

\* The two alternatives of RHEL_VERSION_PATTERN, matched ignoring case.
VersionPrefixes == <<Chars("rhel"), Chars("red hat enterprise linux")>>

\* group(1) of a match of RHEL_VERSION_PATTERN starting at p, <<>> if none.
VersionGroupAt(low, p) ==
    LET hits == {a \in 1..Len(VersionPrefixes) : MatchesAt(VersionPrefixes[a], low, p)}
    IN  IF hits = {} THEN <<>>
        ELSE LET a     == CHOOSE x \in hits : \A y \in hits : x <= y
                 q     == SkipSpaces(low, p + Len(VersionPrefixes[a]))
                 whole == DigitRun(low, q)
                 dot   == q + Len(whole)
                 minor == IF dot <= Len(low) /\ low[dot] = "."
                          THEN DigitRun(low, dot + 1) ELSE <<>>
             IN  IF whole = <<>> THEN <<>>
                 ELSE IF minor = <<>> THEN whole
                 ELSE whole \o <<".">> \o minor

\* version.split('.')[0]
RECURSIVE BeforeDot(_)
BeforeDot(version) ==
    IF version = <<>> \/ Head(version) = "." THEN <<>>
    ELSE <<Head(version)>> \o BeforeDot(Tail(version))

\* re.search: the leftmost match from position p on.
RECURSIVE SearchVersion(_, _)
SearchVersion(low, p) ==
    IF p > Len(low) THEN <<>>
    ELSE IF VersionGroupAt(low, p) # <<>> THEN VersionGroupAt(low, p)
    ELSE SearchVersion(low, p + 1)

\* detect_rhel_version: "rhel<major>" or "unknown", as characters.
detect_rhel_version(text) ==
    LET version == SearchVersion(Lower(text), 1)
    IN  IF version # <<>> THEN Chars("rhel") \o BeforeDot(version)
        ELSE Chars("unknown")

-----------------------------------------------------------------------------
(* DocumentProcessor.process_document: the metadata of the chunks *)

\* `x or d` on strings: d only when x is empty.
OrElse(x, d, empty) == IF x = empty THEN d ELSE x

\* ' '.join of the page texts.
RECURSIVE FullText(_, _)
FullText(pages, k) ==
    IF k > Len(pages) THEN <<>>
    ELSE IF k = Len(pages) THEN JoinWords(pages[k].text)
    ELSE JoinWords(pages[k].text) \o <<" ">> \o FullText(pages, k + 1)

\* A chunk with the category and version it is built with.
ChunkMetadata(chunk, doc_category, doc_version) ==
    [id |-> chunk.id, content |-> chunk.content, page |-> chunk.page,
     category |-> OrElse(categorize_content(JoinWords(chunk.content)), doc_category, ""),
     version  |-> OrElse(detect_rhel_version(JoinWords(chunk.content)), doc_version, <<>>)]

\* DocumentProcessor.process_document with the metadata of every chunk (the
\* ingestion above uses the ids and contents alone).  The document-level
\* values are computed once, before the chunks.
DocumentChunks(name, blob, cfg) ==
    LET full_text == FullText(extract_text_from_pdf(blob), 1)
    IN  CHOOSE d \in
            { [raised |-> p.raised,
               doc_category |-> doc_category,
               doc_version |-> doc_version,
               chunks |-> [i \in 1..Len(p.chunks) |->
                              ChunkMetadata(p.chunks[i], doc_category, doc_version)]] :
                 doc_version \in {detect_rhel_version(full_text)},
                 doc_category \in {categorize_content(full_text)},
                 p \in {ProcessorProcessDocument(name, blob, cfg)} } : TRUE

-----------------------------------------------------------------------------
(* VectorStore.add_chunks *)

Ids(chunks) == {chunks[i].id : i \in 1..Len(chunks)}

Stored(coll) == BagToSet(coll)

\* Mutant of CollectionAdd: the batch is stored under ids the collection may
\* already hold (ids not kept unique).
CollectionAddAgain(coll, ids, dup) ==
    [raised |-> FALSE, coll |-> coll (+) SetToBag(ids)]

\* collection.add of a batch of ids: an id the collection already holds is
\* refused (the whole batch raises) or skipped, by the installed index.
CollectionAdd(coll, ids, dup) ==
    LET old == ids \cap Stored(coll)
    IN  IF old # {} /\ dup = "raise"
        THEN [raised |-> TRUE, coll |-> coll]
        ELSE [raised |-> FALSE, coll |-> coll (+) SetToBag(ids \ old)]

\* add_chunks: [raised, coll, submitted].  Nothing is stored when encode raises.
add_chunks(coll, chunks, backend, dup) ==
    IF chunks = <<>> THEN [raised |-> FALSE, coll |-> coll, submitted |-> FALSE]
    ELSE IF backend = "embed_fail" THEN [raised |-> TRUE, coll |-> coll, submitted |-> FALSE]
    ELSE IF backend = "add_fail" THEN [raised |-> TRUE, coll |-> coll, submitted |-> TRUE]
    ELSE LET r == CollectionAdd(coll, Ids(chunks), dup)
         IN  [raised |-> r.raised, coll |-> r.coll, submitted |-> TRUE]

-----------------------------------------------------------------------------
(* DocumentManager *)

\* The part of the state the manager's processing works on.
IngestState == [collection |-> collection, submissions |-> submissions, outcome |-> outcome]

\* DocumentManager.process_document: every exception is logged and swallowed.
ManagerProcessDocument(st, name, blob, backend, cfg, dup) ==
    LET p == ProcessorProcessDocument(name, blob, cfg)
    IN  IF p.raised THEN [st EXCEPT !.outcome[name] = "error"]
        ELSE IF p.chunks = <<>> THEN [st EXCEPT !.outcome[name] = "empty"]
        ELSE LET a == add_chunks(st.collection, p.chunks, backend, dup)
             IN  [collection  |-> a.coll,
                  submissions |-> [st.submissions EXCEPT
                                      ![name] = @ + (IF a.submitted THEN 1 ELSE 0)],
                  outcome     |-> [st.outcome EXCEPT
                                      ![name] = IF a.raised THEN "error" ELSE "indexed"]]

\* The loop of scan_and_process_documents over the names not yet processed
\* (documents are independent of each other, so the glob order is immaterial).
RECURSIVE ScanLoop(_, _, _, _, _, _)
ScanLoop(todo, st, dir, backends, cfg, dup) ==
    IF todo = {} THEN st
    ELSE LET name == CHOOSE n \in todo : TRUE
         IN  ScanLoop(todo \ {name},
                      ManagerProcessDocument(st, name, dir[name], backends[name], cfg, dup),
                      dir, backends, cfg, dup)

\* scan_and_process_documents: the state after it, and the names it marks.
ScanTodo(dir, processed) == DOMAIN dir \ processed

scan_and_process_documents(st, dir, processed, backends, cfg, dup) ==
    [st        |-> ScanLoop(ScanTodo(dir, processed), st, dir, backends, cfg, dup),
     processed |-> processed \cup ScanTodo(dir, processed)]

-----------------------------------------------------------------------------
(* Responses *)

NoRequest == [qlen |-> 0, max_results |-> 0, min_confidence |-> 0]

Resp(op, status, name) ==
    [op |-> op, status |-> status, name |-> name,
     request |-> NoRequest, raw |-> <<>>, results |-> <<>>]

Search422(req) ==
    [op |-> "search", status |-> 422, name |-> "",
     request |-> req, raw |-> <<>>, results |-> <<>>]

Search500(req) ==
    [op |-> "search", status |-> 500, name |-> "",
     request |-> req, raw |-> <<>>, results |-> <<>>]

Search200(req, raw, results) ==
    [op |-> "search", status |-> 200, name |-> "",
     request |-> req, raw |-> raw, results |-> results]

-----------------------------------------------------------------------------
(* SearchRequest: the validation the framework runs before the handler *)

RoundDigits == 3
Scale == 10 ^ (RoundDigits + 1)          \* 1.0
Ulp == Scale \div (10 ^ RoundDigits)     \* 0.001

MinQueryLength == 1
MaxQueryLength == 500
MinMaxResults == 1
MaxMaxResults == 50
WindowSize == 100

\* Mutant of ValidRequest: the upper bound of max_results is not enforced.
ValidRequestNoUpper(req) ==
    /\ req.qlen >= MinQueryLength /\ req.qlen <= MaxQueryLength
    /\ req.max_results >= MinMaxResults
    /\ req.min_confidence >= 0 /\ req.min_confidence <= Scale

ValidRequest(req) ==
    /\ req.qlen >= MinQueryLength /\ req.qlen <= MaxQueryLength
    /\ req.max_results >= MinMaxResults /\ req.max_results <= MaxMaxResults
    /\ req.min_confidence >= 0 /\ req.min_confidence <= Scale

-----------------------------------------------------------------------------
(* VectorStore.search *)

\* round(confidence, 3): to the nearest multiple of 0.001, a tie to the even one.
Round3(c) ==
    LET q == c \div Ulp
        r == c % Ulp
    IN  IF 2 * r < Ulp THEN q * Ulp
        ELSE IF 2 * r > Ulp THEN (q + 1) * Ulp
        ELSE IF q % 2 = 0 THEN q * Ulp ELSE (q + 1) * Ulp

\* n_results of the index query.
NResults(max_results) == Min(max_results * 2, 100)

\* The loop over the candidates: those at or above min_confidence, in the
\* order of the index, each with its confidence rounded.
RECURSIVE BuildResults(_, _, _)
BuildResults(cands, i, min_confidence) ==
    IF i > Len(cands) THEN <<>>
    ELSE LET confidence == Scale - cands[i].distance
         IN  (IF confidence >= min_confidence
              THEN <<[id |-> cands[i].id, confidence |-> Round3(confidence)]>>
              ELSE <<>>)
             \o BuildResults(cands, i + 1, min_confidence)

\* list.sort(key=confidence, reverse=True) is stable: x goes behind every
\* element that is not smaller.
RECURSIVE InsertDesc(_, _)
InsertDesc(sorted, x) ==
    IF sorted = <<>> THEN <<x>>
    ELSE IF Head(sorted).confidence >= x.confidence
         THEN <<Head(sorted)>> \o InsertDesc(Tail(sorted), x)
         ELSE <<x>> \o sorted

RECURSIVE InsertAsc(_, _)
InsertAsc(sorted, x) ==
    IF sorted = <<>> THEN <<x>>
    ELSE IF Head(sorted).confidence <= x.confidence
         THEN <<Head(sorted)>> \o InsertAsc(Tail(sorted), x)
         ELSE <<x>> \o sorted

RECURSIVE SortFrom(_, _, _)
SortFrom(rs, i, acc) ==
    IF i > Len(rs) THEN acc ELSE SortFrom(rs, i + 1, InsertDesc(acc, rs[i]))

RECURSIVE SortAscFrom(_, _, _)
SortAscFrom(rs, i, acc) ==
    IF i > Len(rs) THEN acc ELSE SortAscFrom(rs, i + 1, InsertAsc(acc, rs[i]))

\* Mutant of SortByConfidence: reverse=True is missing.
SortByConfidenceAscending(rs) == SortAscFrom(rs, 1, <<>>)

SortByConfidence(rs) == SortFrom(rs, 1, <<>>)

\* The results of search for the candidates the index returned.
SearchResults(cands, max_results, min_confidence) ==
    LET sorted == SortByConfidence(BuildResults(cands, 1, min_confidence))
    IN  SubSeq(sorted, 1, Min(max_results, Len(sorted)))

\* Mutant of TrimWindow: the first 100 samples are kept instead of the last.
TrimWindowOldest(times) ==
    IF Len(times) > WindowSize THEN SubSeq(times, 1, WindowSize) ELSE times

\* response_times[-100:] once the list is longer than 100.
TrimWindow(times) ==
    IF Len(times) > WindowSize
    THEN SubSeq(times, Len(times) - WindowSize + 1, Len(times))
    ELSE times

\* Mutant of UpdateStats: while another search is in flight the counter is
\* written back from a stale read (a lost update).
UpdateStatsLossy(st, response_time) ==
    [total_queries  |-> IF inflight > 1 THEN Max(st.total_queries, 1)
                        ELSE st.total_queries + 1,
     response_times |-> TrimWindow(Append(st.response_times, response_time))]

\* The statistics update at the end of a successful search.
UpdateStats(st, response_time) ==
    [total_queries  |-> st.total_queries + 1,
     response_times |-> TrimWindow(Append(st.response_times, response_time))]

-----------------------------------------------------------------------------
(* The index query, as the search sees it *)

\* Distances the index reports (squared L2, never negative), in units of
\* 1/Scale: confidences 1.0, 0.3004, 0.3 and -0.2.
DistanceValues == {0, 6996, 7000, 12000}

\* The stored ids in one order.  search treats ids as opaque, so one order
\* of the ids stands for every order the embedding could give them.
RECURSIVE IdOrder(_)
IdOrder(ids) ==
    IF ids = {} THEN <<>>
    ELSE LET id == CHOOSE x \in ids : TRUE
         IN  <<id>> \o IdOrder(ids \ {id})

\* What collection.query can return for n_results = n: up to n of the stored
\* passages, by ascending distance.
CandidateLists(coll, n) ==
    LET order == IdOrder(Stored(coll))
        most  == Min(n, Len(order))
    IN  UNION { { [i \in 1..k |-> [id |-> order[i], distance |-> d[i]]] :
                    d \in { e \in [1..k -> DistanceValues] :
                               \A i \in 1..k : \A j \in 1..k :
                                   i < j => e[i] <= e[j] } } :
                k \in 0..most }

\* Response times measured, in ms.
RTValues == {0, 1}

\* The times drawn for successive searches never decrease (the service does
\* not get faster during a run); this keeps the histories enumerable.
NextRTs == {r \in RTValues : samples = <<>> \/ r >= samples[Len(samples)]}

Requests ==
    [qlen : {0, 500, 501}, max_results : {0, 1, 2, 50, 51}, min_confidence : {-1, 0, 3002, Scale, Scale + 1}]

StatsRequests ==
    [qlen : {0, 500}, max_results : {1}, min_confidence : {0}]

SearchOutcomes == {"ok", "encode_fail", "query_fail"}

-----------------------------------------------------------------------------
(* Construction *)

\* The directory as found at startup: any documents.
Directories == UNION {[S -> Blobs] : S \in SUBSET Names}

Init ==
    /\ config \in ConfigChoices
    /\ onDuplicate \in {"raise", "ignore"}
    /\ phase = "init"
    /\ files \in Directories
    /\ processed_files = {}
    /\ collection = EmptyBag
    /\ submissions = [n \in Names |-> 0]
    /\ outcome = [n \in Names |-> "none"]
    /\ uploads = 0
    /\ reprocesses = 0
    /\ inflight = 0
    /\ stats = [total_queries |-> 0, response_times |-> <<>>]
    /\ samples = <<>>
    /\ backendCalls = [encode |-> 0, query |-> 0]
    /\ response = Resp("none", 0, "")
    /\ ret = [fn |-> "none"]

-----------------------------------------------------------------------------
(* lifespan: initialize the vector store, then scan the directory *)

Lifespan ==
    /\ phase = "init"
    /\ \E initOk \in BOOLEAN, backends \in [Names -> BackendOutcomes] :
          IF ~initOk
          THEN /\ phase' = "failed"
               /\ UNCHANGED <<processed_files, collection, submissions, outcome>>
          ELSE LET r == scan_and_process_documents(IngestState, files, processed_files,
                                                   backends, config, onDuplicate)
               IN  /\ phase' = "running"
                   /\ processed_files' = r.processed
                   /\ collection' = r.st.collection
                   /\ submissions' = r.st.submissions
                   /\ outcome' = r.st.outcome
    /\ UNCHANGED <<ret, config, onDuplicate, files, uploads, reprocesses, inflight,
                   searchVars, response>>

-----------------------------------------------------------------------------
(* POST /api/documents/upload: upload_document and add_document *)

WriteOutcomes == {"ok", "open_fail", "write_fail"}

UploadDocument ==
    /\ phase = "running"
    /\ uploads < MaxUploads
    /\ uploads' = uploads + 1
    /\ \E filename \in UploadNames, blob \in Blobs, w \in WriteOutcomes,
          backend \in BackendOutcomes :
          IF ~IsPdf(filename)
          THEN /\ response' = Resp("upload", 400, filename)
               /\ UNCHANGED <<files, processed_files, collection, submissions, outcome>>
          ELSE IF w = "open_fail"
          THEN /\ response' = Resp("upload", 500, filename)
               /\ UNCHANGED <<files, processed_files, collection, submissions, outcome>>
          ELSE IF w = "write_fail"
          THEN \* open() truncated the file and the write raised
               /\ files' = (filename :> <<>>) @@ files
               /\ response' = Resp("upload", 500, filename)
               /\ UNCHANGED <<processed_files, collection, submissions, outcome>>
          ELSE LET st == ManagerProcessDocument(IngestState, filename, blob, backend,
                                                config, onDuplicate)
               IN  /\ files' = (filename :> blob) @@ files
                   /\ collection' = st.collection
                   /\ submissions' = st.submissions
                   /\ outcome' = st.outcome
                   /\ processed_files' = processed_files \cup {filename}
                   /\ response' = Resp("upload", 201, filename)
    /\ UNCHANGED <<ret, config, onDuplicate, phase, reprocesses, inflight, searchVars>>

-----------------------------------------------------------------------------
(* POST /api/documents/reprocess *)

ReprocessDocuments ==
    /\ phase = "running"
    /\ reprocesses < MaxReprocess
    /\ reprocesses' = reprocesses + 1
    /\ \E backends \in [Names -> BackendOutcomes] :
          LET r == scan_and_process_documents(IngestState, files, {},
                                              backends, config, onDuplicate)
          IN  /\ processed_files' = r.processed
              /\ collection' = r.st.collection
              /\ submissions' = r.st.submissions
              /\ outcome' = r.st.outcome
    /\ response' = Resp("reprocess", 200, "")
    /\ UNCHANGED <<ret, config, onDuplicate, phase, files, uploads, inflight, searchVars>>

-----------------------------------------------------------------------------
(* POST /api/search: search_documents and VectorStore.search *)

\* A search request reaches the server; each client has one in flight at most.
ArriveSearch ==
    /\ phase = "running"
    /\ inflight < Cardinality(Clients)
    /\ inflight' = inflight + 1
    /\ UNCHANGED <<ret, config, onDuplicate, phase, ingestVars, searchVars, response>>

Failures == backendCalls.encode - stats.total_queries

SearchHandler(requests, outcomes, limit) ==
    /\ phase = "running"
    /\ inflight > 0
    /\ inflight' = inflight - 1
    /\ \E req \in requests :
          IF ~ValidRequest(req)
          THEN /\ response' = Search422(req)
               /\ UNCHANGED <<stats, samples, backendCalls>>
          ELSE /\ backendCalls.encode < limit
               /\ \E o \in outcomes :
                     CASE o = "encode_fail" ->
                            /\ Failures < MaxFailures
                            /\ backendCalls' = [backendCalls EXCEPT !.encode = @ + 1]
                            /\ response' = Search500(req)
                            /\ UNCHANGED <<stats, samples>>
                       [] o = "query_fail" ->
                            /\ Failures < MaxFailures
                            /\ backendCalls' = [encode |-> backendCalls.encode + 1,
                                                query  |-> backendCalls.query + 1]
                            /\ response' = Search500(req)
                            /\ UNCHANGED <<stats, samples>>
                       [] OTHER ->
                            \E cands \in CandidateLists(collection, NResults(req.max_results)),
                               rt \in NextRTs :
                               /\ backendCalls' = [encode |-> backendCalls.encode + 1,
                                                   query  |-> backendCalls.query + 1]
                               /\ stats' = UpdateStats(stats, rt)
                               /\ samples' = Append(samples, rt)
                               /\ response' = Search200(req, cands,
                                      SearchResults(cands, req.max_results,
                                                    req.min_confidence))
    /\ UNCHANGED <<ret, config, onDuplicate, phase, ingestVars>>

SearchDocuments == SearchHandler(Requests, SearchOutcomes, MaxSearches)

SearchDocumentsStats == SearchHandler(StatsRequests, {"ok"}, MaxStatsSearches)

-----------------------------------------------------------------------------
(* Direct calls of the DocumentProcessor functions *)

processorVars == <<config, onDuplicate, phase, ingestVars, inflight, searchVars, response>>

\* A text of n distinct words, as text.split() gives it.
TextWords == <<"w1", "w2", "w3", "w4", "w5", "w6", "w7">>
TextOf(n) == SubSeq(TextWords, 1, Min(n, Len(TextWords)))

\* Each behaviour makes one call: the functions are pure, so nothing a call
\* returns depends on the calls before it.

\* chunk_text(text, chunk_size, overlap), either argument possibly left out.
CallChunkText ==
    /\ ret.fn = "none"
    /\ \E n \in 0..MaxTextWords, chunk_size \in {None} \cup 1..MaxChunkSize :
          \E overlap \in {None} \cup 0..MaxChunkSize :
             LET r == chunk_text(TextOf(n), chunk_size, overlap, config)
             IN  ret' = [fn |-> "chunk_text", words |-> TextOf(n),
                         chunk_size |-> chunk_size, overlap |-> overlap,
                         raised |-> r.raised, chunks |-> r.chunks]
    /\ UNCHANGED processorVars

\* Words of the texts categorize_content is called on.
CategorizeWords == {"configure", "selinux", "and", "firewalld", "Install", "w1"}

WordLists(words, most) == UNION {[1..n -> words] : n \in 0..most}

CallCategorize ==
    /\ ret.fn = "none"
    /\ \E words \in WordLists(CategorizeWords, MaxCategorizeWords) :
          ret' = [fn |-> "categorize_content", words |-> words,
                  result |-> categorize_content(JoinWords(words))]
    /\ UNCHANGED processorVars

\* Documents process_document is called on: one page of up to MaxPageWords
\* words, or two pages of one or two words each.
DocWords == {"RHEL", "9.2", "selinux", "w1"}

ShortPages == [1..1 -> DocWords] \cup [1..2 -> DocWords]

ProcessorDocs ==
    { <<page>> : page \in WordLists(DocWords, MaxPageWords) \ {<<>>} }
    \cup { <<p1, p2>> : p1 \in ShortPages, p2 \in ShortPages }

CallProcessDocument ==
    /\ ret.fn = "none"
    /\ \E blob \in ProcessorDocs :
          \E d \in {DocumentChunks("a.pdf", blob, config)} :
             ret' = [fn |-> "process_document", blob |-> blob,
                     doc_category |-> d.doc_category, doc_version |-> d.doc_version,
                     raised |-> d.raised, chunks |-> d.chunks]
    /\ UNCHANGED processorVars

-----------------------------------------------------------------------------

NextIngest ==
    \/ Lifespan
    \/ UploadDocument
    \/ ReprocessDocuments

Spec == Init /\ [][NextIngest]_vars

\* Retrieval: the server starts over one document of three passages.
InitSearch ==
    /\ Init
    /\ config = [CHUNK_SIZE |-> 3, CHUNK_OVERLAP |-> 1]
    /\ files = ("a.pdf" :> << <<"w1", "w2", "w3", "w4">>, <<>>, <<"w5">> >>)

NextSearch ==
    \/ Lifespan
    \/ ArriveSearch
    \/ SearchDocuments

SpecSearch == InitSearch /\ [][NextSearch]_vars

\* Statistics: many searches against an empty index.
InitStats ==
    /\ Init
    /\ config = [CHUNK_SIZE |-> 3, CHUNK_OVERLAP |-> 1]
    /\ onDuplicate = "ignore"
    /\ files = << >>

NextStats ==
    \/ Lifespan
    \/ ArriveSearch
    \/ SearchDocumentsStats

SpecStats == InitStats /\ [][NextStats]_vars

\* The processor's functions called on their own, under the configuration
\* CHUNK_SIZE 3, CHUNK_OVERLAP 1.
InitProcessor ==
    /\ Init
    /\ config = [CHUNK_SIZE |-> 3, CHUNK_OVERLAP |-> 1]
    /\ onDuplicate = "ignore"
    /\ files = << >>

NextProcessor ==
    \/ CallChunkText
    \/ CallCategorize
    \/ CallProcessDocument

SpecProcessor == InitProcessor /\ [][NextProcessor]_vars

-----------------------------------------------------------------------------
(* Ingestion: properties *)

\* The ids processing `name` as it is in the directory would produce.
DocIds(name) == Ids(ProcessorProcessDocument(name, files[name], config).chunks)

\* Every document of the directory is in the index with its present bytes.
AllIndexed == \A n \in DOMAIN files : DocIds(n) \subseteq Stored(collection)

NoIdTwice(coll) == \A id \in Stored(coll) : CopiesIn(id, coll) = 1

\* The configuration chunk_text can segment with.
ValidConfig == config.CHUNK_SIZE - config.CHUNK_OVERLAP > 0

\* C1: as long as no reprocess request cleared processed_files, the passages
\* of every document name are handed to the index at most once, whatever
\* the sequence of startup scan and uploads (stated for a valid chunk
\* configuration).
C1_AtMostOnceSubmission ==
    (ValidConfig /\ reprocesses = 0) => \A n \in Names : submissions[n] <= 1

\* C2: a name is in processed_files only if its last processing succeeded
\* (pages were extracted and the embedding and the index add went through);
\* stated for a valid chunk configuration.
C2_ProcessedOnlyAfterSuccess ==
    ValidConfig => \A n \in processed_files : outcome[n] = "indexed"

C8_UploadFailurePropagates ==
    (ValidConfig /\ response.op = "upload" /\ response.name \in Names
        /\ outcome[response.name] = "error")
    => response.status = 500

\* C9: with CHUNK_SIZE - CHUNK_OVERLAP <= 0 the application never gets past
\* startup.
C9_BadConfigRejectedAtStartup ==
    (config.CHUNK_SIZE - config.CHUNK_OVERLAP <= 0) => phase # "running"

-----------------------------------------------------------------------------
(* Retrieval: properties *)

Served == response.op = "search" /\ response.status = 200

\* The place of a passage id in what the index returned.
RawPosition(id) == CHOOSE i \in 1..Len(response.raw) : response.raw[i].id = id

\* C4: a served search returns at most max_results items and every item's
\* reported confidence is at least min_confidence.
C4_BoundedAndAboveThreshold ==
    Served =>
        /\ Len(response.results) <= response.request.max_results
        /\ \A i \in 1..Len(response.results) :
              response.results[i].confidence >= response.request.min_confidence

\* C5: every confidence a served search returns lies in [0,1], the list is
\* non-increasing by confidence, and items of equal confidence keep the order
\* in which the index returned them.
C5_RangeAndStableOrder ==
    Served =>
        /\ \A i \in 1..Len(response.results) :
              response.results[i].confidence \in 0..Scale
        /\ \A i \in 1..Len(response.results) : \A j \in 1..Len(response.results) :
              i < j =>
                /\ response.results[i].confidence >= response.results[j].confidence
                /\ (response.results[i].confidence = response.results[j].confidence
                      => RawPosition(response.results[i].id)
                           < RawPosition(response.results[j].id))

\* C5 witness: a served search returned two items of equal reported
\* confidence that the index had returned at different distances, behind an
\* item of higher confidence.
C5_Witness ==
    /\ Served
    /\ Len(response.results) >= 3
    /\ response.results[1].confidence > response.results[2].confidence
    /\ response.results[2].confidence = response.results[3].confidence
    /\ response.raw[2].distance # response.raw[3].distance

\* The request is one the claim says is rejected: the query empty or longer
\* than 500 characters, max_results outside [1,50], min_confidence outside [0,1].
Malformed(req) ==
    \/ req.qlen < 1 \/ req.qlen > 500
    \/ req.max_results < 1 \/ req.max_results > 50
    \/ req.min_confidence < 0 \/ req.min_confidence > Scale

\* C6: the handling of a malformed search request ends in a validation error
\* and makes no backend call and no change to the statistics.
C6_MalformedRejectedUntouched ==
    [][(inflight' = inflight - 1 /\ response'.op = "search"
            /\ Malformed(response'.request))
          => /\ response'.status = 422
             /\ backendCalls' = backendCalls
             /\ stats' = stats]_vars

\* C6 witness: a request with max_results above 50 was rejected after other
\* searches had been served.
C6_Witness ==
    /\ response.op = "search"
    /\ response.status = 422
    /\ response.request.max_results > 50
    /\ stats.total_queries > 0

\* The last n elements of a sequence.
LastN(seq, n) == SubSeq(seq, Len(seq) - n + 1, Len(seq))

\* C7: the response-time window holds at most 100 samples: the most recent
\* min(n, 100) of the n searches served, in arrival order.
C7_WindowIsRecentSuffix ==
    /\ Len(stats.response_times) <= 100
    /\ stats.response_times = LastN(samples, Min(Len(samples), 100))

\* C7 witness: 102 searches were served, the first two fast and the third
\* slow, so the window starts at the third sample.
C7_Witness ==
    /\ Len(samples) = 102
    /\ samples[2] = 0
    /\ samples[3] = 1
    /\ stats.response_times[1] = 1

\* C10: whatever the order in which searches in flight are served, the query
\* counter equals the number of searches served and the window holds one
\* sample for each of them, up to 100.
C10_NoLostUpdate ==
    /\ stats.total_queries = Len(samples)
    /\ Len(stats.response_times) = Min(Len(samples), 100)

\* C10 witness: more than 100 searches have been served while another
\* search is in flight.
C10_Witness ==
    /\ Len(samples) > 100
    /\ inflight > 0
    /\ stats.total_queries = Len(samples)

-----------------------------------------------------------------------------
(* DocumentProcessor: properties *)

\* C11: chunk_text called with 0 <= overlap < chunk_size returns a finite list
\* whose k-th chunk is the words from k*(c-o) to k*(c-o)+c of the text: starts
\* advance by c-o, every chunk has between 1 and c words.
C11_ChunksAreWindows ==
    (ret.fn = "chunk_text" /\ ret.overlap >= 0 /\ ret.overlap < ret.chunk_size)
    => LET c     == ret.chunk_size
           step  == ret.chunk_size - ret.overlap
           n     == Len(ret.words)
           count == (n + step - 1) \div step
       IN  /\ ~ret.raised
           /\ Len(ret.chunks) = count
           /\ \A k \in 0..(count - 1) :
                 /\ ret.chunks[k + 1] = SubSeq(ret.words, k * step + 1, Min(k * step + c, n))
                 /\ Len(ret.chunks[k + 1]) \in 1..c

\* C12: in a processed document every chunk that categorizes as `general` on
\* its own carries the document's category and every chunk whose own version
\* is `unknown` carries the document's version; so when the document's
\* category is not `general` and its version is not `unknown`, no chunk
\* carries `general` or `unknown`.
C12_ChunkFallsBackToDocument ==
    ret.fn = "process_document"
    => \A i \in 1..Len(ret.chunks) :
          LET text == JoinWords(ret.chunks[i].content)
          IN  /\ categorize_content(text) = "general"
                    => ret.chunks[i].category = ret.doc_category
              /\ detect_rhel_version(text) = Chars("unknown")
                    => ret.chunks[i].version = ret.doc_version
              /\ (ret.doc_category # "general" /\ ret.doc_version # Chars("unknown"))
                    => /\ ret.chunks[i].category # "general"
                       /\ ret.chunks[i].version # Chars("unknown")

\* The number of keywords of the category named c that occur in the
\* lower-cased text.
ScoreOf(c, text) ==
    LET i == CHOOSE j \in 1..Len(CATEGORY_KEYWORDS) : CATEGORY_KEYWORDS[j].category = c
    IN  Score(i, Lower(text))

ExampleWords == <<"configure", "selinux", "and", "firewalld">>

====
